---- MODULE Spec2Model ----
(***************************************************************************)
(* A model of the static blog generator: src/blog_generator.py and its     *)
(* packaged variant src/blog_generator/md_to_html.py.                      *)
(*                                                                         *)
(* Text is a sequence of one-character strings.  Inside a YAML header one  *)
(* element may also be a whole "key: value" line (for instance             *)
(* "status: published"): yaml is a library, modelled by what safe_load     *)
(* returns for those lines.  A file name is a sequence of characters.      *)
(*                                                                         *)
(* The home-page template, when its file is present, holds the articles    *)
(* placeholder once.  No text holds a backslash (blog_generator.py hands   *)
(* the article cards to re.sub as a replacement string, which interprets   *)
(* backslashes).  markdown.markdown is a library: a page records the text  *)
(* handed to it.                                                           *)
(***************************************************************************)
EXTENDS Integers, Sequences, FiniteSets, TLC

VARIABLES
    prog,             \* which program runs: "blog_generator" or "md_to_html"
    pc,               \* position in generate_blog_site (or in a function under test)
    blogsExists,      \* repo_dir/blogs exists
    tree,             \* os.walk(blogs_dir): the files of the source tree, in walk order
    pageTemplate,     \* blog_post.template is present (md_to_html only)
    homeTemplate,     \* blog_home_template.html / blog_home.template is present
    priorOut,         \* an output root of an earlier run exists when the run starts
    outExists,        \* the output root exists
    outStale,         \* the output root still holds the earlier run's files
    outDirs,          \* subdirectories of the output root
    images,           \* output_dir/images: name -> index in tree of the file copied there
    pages,            \* written pages: path -> page
    index,            \* output_dir/index.html: <<>> (absent) or <<teasers>>
    copied_images,    \* the rename map
    md_files,         \* find_md_files(blogs_dir): indexes in tree
    all_blogs,
    published_blogs,
    ai,               \* copy_assets: position of the walk
    di,               \* position of the document loop
    inp,              \* input of the function under test
    outp              \* its results

vars == <<prog, pc, blogsExists, tree, pageTemplate, homeTemplate, priorOut,
          outExists, outStale, outDirs, images, pages, index, copied_images,
          md_files, all_blogs, published_blogs, ai, di, inp, outp>>

inputVars == <<prog, blogsExists, tree, pageTemplate, homeTemplate, priorOut>>
outVars == <<outExists, outStale, outDirs, images, pages, index>>
localVars == <<copied_images, md_files, all_blogs, published_blogs, ai, di>>

-----------------------------------------------------------------------------
(* Bounds of the model. *)

MaxAssets == 3
MaxFiles == 3
MaxPublished == 11

-----------------------------------------------------------------------------
(* str and os.path primitives, as Python computes them. *)

Dashes == <<"-", "-", "-">>
Whitespace == {" ", "\n"}
EmptyMap == [x \in {} |-> <<>>]

Put(m, k, v) == [x \in DOMAIN m \cup {k} |-> IF x = k THEN v ELSE m[x]]

Range(s) == {s[i] : i \in DOMAIN s}

Take(s, n) == SubSeq(s, 1, IF n < Len(s) THEN n ELSE Len(s))

Drop(s, n) == SubSeq(s, n + 1, Len(s))

IsAt(s, p, i) == i + Len(p) - 1 <= Len(s) /\ SubSeq(s, i, i + Len(p) - 1) = p

startswith(s, p) == IsAt(s, p, 1)

endswith(s, p) == Len(p) <= Len(s) /\ IsAt(s, p, Len(s) - Len(p) + 1)

Least(S) == IF S = {} THEN 0 ELSE CHOOSE k \in S : \A l \in S : k <= l

Greatest(S) == IF S = {} THEN 0 ELSE CHOOSE k \in S : \A l \in S : l <= k

\* s.find(p, i), counted from 1; 0 when p does not occur
Find(s, p, i) == Least({k \in i..Len(s) : IsAt(s, p, k)})

FirstIdx(s, c, i) == Least({k \in i..Len(s) : s[k] = c})

LastIdx(s, c, i) == Greatest({k \in 1..i : s[k] = c})

\* s.split(sep, maxsplit)
RECURSIVE split(_, _, _)
split(s, sep, maxsplit) ==
    IF maxsplit = 0 THEN <<s>>
    ELSE LET i == Find(s, sep, 1)
         IN  IF i = 0 THEN <<s>>
             ELSE <<SubSeq(s, 1, i - 1)>>
                      \o split(Drop(s, i + Len(sep) - 1), sep, maxsplit - 1)

\* s.strip(): from the first to the last character that is no whitespace
strip(s) ==
    LET keep == {k \in DOMAIN s : s[k] \notin Whitespace}
    IN  IF keep = {} THEN <<>> ELSE SubSeq(s, Least(keep), Greatest(keep))

\* s.replace(old, new): every non-overlapping occurrence, left to right
RECURSIVE replace(_, _, _)
replace(s, old, new) ==
    LET i == Find(s, old, 1)
    IN  IF i = 0 THEN s
        ELSE SubSeq(s, 1, i - 1) \o new \o replace(Drop(s, i + Len(old) - 1), old, new)

Lower(c) ==
    CASE c = "P" -> "p"
      [] c = "N" -> "n"
      [] c = "G" -> "g"
      [] OTHER -> c

lower(s) == [i \in DOMAIN s |-> Lower(s[i])]

\* os.path.splitext: the extension starts at the last dot, unless only dots
\* precede it.
SplitAt(file) ==
    LET d == LastIdx(file, ".", Len(file))
    IN  IF d > 1 /\ \E j \in 1..(d - 1) : file[j] # "." THEN d ELSE Len(file) + 1

splitext_name(file) == SubSeq(file, 1, SplitAt(file) - 1)

splitext_ext(file) == Drop(file, SplitAt(file) - 1)

\* os.path.basename
basename(path) == Drop(path, LastIdx(path, "/", Len(path)))

\* f"{counter}"
Digit(n) == CASE n = 0 -> "0" [] n = 1 -> "1" [] n = 2 -> "2" [] n = 3 -> "3"
              [] n = 4 -> "4" [] n = 5 -> "5" [] n = 6 -> "6" [] n = 7 -> "7"
              [] n = 8 -> "8" [] n = 9 -> "9"

RECURSIVE str(_)
str(n) == IF n < 10 THEN <<Digit(n)>> ELSE str(n \div 10) \o <<Digit(n % 10)>>

-----------------------------------------------------------------------------
(* yaml.safe_load and datetime.strptime on the header lines of the model. *)

KVLines ==
    {"title: Hello", "title: World", "date: 2024-01-01", "date: 2024-03-01",
     "date: 2024-06-01", "date: 0001-01-01", "date: junk", "status: published",
     "status: draft", "status: Published", "author: Ann", "tags: [ml]"}

LineKey(l) ==
    CASE l \in {"title: Hello", "title: World"} -> "title"
      [] l \in {"date: 2024-01-01", "date: 2024-03-01", "date: 2024-06-01",
                "date: 0001-01-01", "date: junk"} -> "date"
      [] l \in {"status: published", "status: draft", "status: Published"} -> "status"
      [] l = "author: Ann" -> "author"
      [] l = "tags: [ml]" -> "tags"

LineValue(l) ==
    CASE l = "title: Hello" -> "Hello"
      [] l = "title: World" -> "World"
      [] l = "date: 2024-01-01" -> "2024-01-01"
      [] l = "date: 2024-03-01" -> "2024-03-01"
      [] l = "date: 2024-06-01" -> "2024-06-01"
      [] l = "date: 0001-01-01" -> "0001-01-01"
      [] l = "date: junk" -> "junk"
      [] l = "status: published" -> "published"
      [] l = "status: draft" -> "draft"
      [] l = "status: Published" -> "Published"
      [] l = "author: Ann" -> "Ann"
      [] l = "tags: [ml]" -> <<"ml">>

NotWhitespace(c) == c \notin Whitespace

HeaderItems(frontmatter) == SelectSeq(frontmatter, NotWhitespace)

\* safe_load returns a dict: the block is a non-empty run of key: value lines.
\* Anything else raises in safe_load or yields a value without .get.
IsMapping(frontmatter) ==
    /\ HeaderItems(frontmatter) # <<>>
    /\ \A i \in DOMAIN HeaderItems(frontmatter) : HeaderItems(frontmatter)[i] \in KVLines

\* metadata.get(key, default): of duplicate keys the last one stands
dict_get(frontmatter, key, default) ==
    LET items == HeaderItems(frontmatter)
        hits == {i \in DOMAIN items : LineKey(items[i]) = key}
    IN  IF hits = {} THEN default
        ELSE LineValue(items[CHOOSE i \in hits : \A j \in hits : j <= i])

\* datetime.min, as year*10000 + month*100 + day
DatetimeMin == 10101

\* datetime.strptime(str(date_str), '%Y-%m-%d'); a ValueError leaves date = None.
\* A date is <<>> (None) or <<yyyymmdd>>.
strptime(date_str) ==
    CASE date_str = "2024-01-01" -> <<20240101>>
      [] date_str = "2024-03-01" -> <<20240301>>
      [] date_str = "2024-06-01" -> <<20240601>>
      [] date_str = "0001-01-01" -> <<DatetimeMin>>
      [] OTHER -> <<>>

Defaults ==
    [title |-> "Untitled", date |-> <<>>, status |-> "draft", author |-> "",
     tags |-> <<>>]

-----------------------------------------------------------------------------
(* The per-document functions. *)

extract_metadata(md_content) ==
    IF ~startswith(md_content, Dashes) THEN Defaults
    ELSE LET parts == split(md_content, Dashes, 2)
         IN  IF Len(parts) < 3 THEN Defaults
             ELSE LET frontmatter == strip(parts[2])
                  IN  IF ~IsMapping(frontmatter) THEN Defaults
                      ELSE [title |-> dict_get(frontmatter, "title", "Untitled"),
                            date |-> strptime(dict_get(frontmatter, "date", "")),
                            status |-> dict_get(frontmatter, "status", "draft"),
                            author |-> dict_get(frontmatter, "author", ""),
                            tags |-> dict_get(frontmatter, "tags", <<>>)]

\* "Remove frontmatter from content"
content_only(md_content) ==
    LET content_parts == split(md_content, Dashes, 2)
    IN  IF Len(content_parts) >= 3 THEN strip(content_parts[3]) ELSE md_content

ExcerptLen == 150
Ellipsis == <<".", ".", ".">>
\* the three marker characters; the grave accent is written "BACKTICK"
Markers == {"#", "*", "BACKTICK"}

NotMarker(c) == c \notin Markers

\* variant of make_excerpt: cuts from 150 characters on, not from 151
make_excerpt_from_limit(content) ==
    LET excerpt == IF Len(content) >= ExcerptLen
                   THEN Take(content, ExcerptLen) \o Ellipsis
                   ELSE content
    IN  SelectSeq(excerpt, NotMarker)

\* content[:150] + "..." if len(content) > 150 else content, then the marker
\* characters are removed
make_excerpt(content) ==
    LET excerpt == IF Len(content) > ExcerptLen
                   THEN Take(content, ExcerptLen) \o Ellipsis
                   ELSE content
    IN  SelectSeq(excerpt, NotMarker)

NoPreview == <<"No preview available...">>

\* The image pattern tried at position i: "![", the characters up to the next
\* "]", "(", one or more characters up to the next ")".  The position of the
\* closing parenthesis, or 0 when the pattern does not match at i.
AltEnd(s, i) == FirstIdx(s, "]", i + 2)

MatchEnd(s, i) ==
    IF ~(i + 1 <= Len(s) /\ s[i] = "!" /\ s[i + 1] = "[") THEN 0
    ELSE LET j == AltEnd(s, i)
         IN  IF j = 0 \/ j + 1 > Len(s) \/ s[j + 1] # "(" THEN 0
             ELSE LET k == FirstIdx(s, ")", j + 2)
                  IN  IF k <= j + 2 THEN 0 ELSE k

alt_text(s, i) == SubSeq(s, i + 2, AltEnd(s, i) - 1)

image_path(s, i) == SubSeq(s, AltEnd(s, i) + 2, MatchEnd(s, i) - 1)

ImagesPrefix == <<"/", "i", "m", "a", "g", "e", "s", "/">>
UpImagesPrefix == <<".", ".">> \o ImagesPrefix

Embed(alt, path) == <<"!", "[">> \o alt \o <<"]", "(">> \o path \o <<")">>

\* re.sub(pattern, replace_image, md_content), from position i on
\* the leftmost position from i on at which the pattern matches, or 0
NextMatch(s, i) == Least({k \in i..Len(s) : MatchEnd(s, k) # 0})

RECURSIVE Sub(_, _, _, _, _)
Sub(s, i, m, found, missing) ==
    LET at == NextMatch(s, i)
    IN  IF at = 0 THEN Drop(s, i - 1)
        ELSE LET image_filename == basename(image_path(s, at))
             IN  SubSeq(s, i, at - 1)
                     \o (IF image_filename \in DOMAIN m
                         THEN Embed(alt_text(s, at), found \o m[image_filename])
                         ELSE Embed(alt_text(s, at), missing \o image_filename))
                     \o Sub(s, MatchEnd(s, at) + 1, m, found, missing)

update_image_references(md_content, copied) ==
    Sub(md_content, 1, copied, ImagesPrefix, ImagesPrefix)

update_image_references_m2h(md_content, copied) ==
    Sub(md_content, 1, copied, UpImagesPrefix, ImagesPrefix)

-----------------------------------------------------------------------------
(* The functions of one document, applied to texts drawn from a bounded    *)
(* set: extract_metadata, the frontmatter removal, update_image_references *)
(* and the excerpt of generate_home_page.                                   *)

Progs == {"blog_generator", "md_to_html"}

A_png == <<"a", ".", "p", "n", "g">>
A_1_png == <<"a", "_", "1", ".", "p", "n", "g">>
B_PNG == <<"b", ".", "P", "N", "G">>
N_txt == <<"n", ".", "t", "x", "t">>

TextLeads == {<<>>, Dashes, <<"\n">> \o Dashes, <<"a">>}

TextHeaders ==
    {<<>>,
     <<"\n", "status: published", "\n">>,
     <<"\n", "title: Hello", "\n", "date: 2024-03-01", "\n", "status: published", "\n">>,
     <<"\n", "status: Published", "\n", "date: junk", "\n", "author: Ann", "\n">>,
     <<"\n", "{", "\n">>,
     <<"\n", "status: published", "\n", "a", "\n">>}

TextCloses == {<<>>, Dashes}

TextBodies ==
    {<<>>,
     <<"\n", "a", "b", "\n">>,
     <<"a">> \o Dashes \o <<"b">> \o Dashes \o <<"c">>,
     <<"#", "a", "*", "b", "BACKTICK">>,
     Embed(<<"x">>, <<"d", "/">> \o A_png),
     Embed(<<>>, A_png) \o <<" ">> \o Embed(<<"y", " ", "!">>, <<".", "/">> \o B_PNG),
     <<"!", "[", "x", "]", "(", ")">> \o Embed(<<"[">>, <<"d", "/">>)}

Texts ==
    {l \o h \o c \o b : l \in TextLeads, h \in TextHeaders, c \in TextCloses,
                        b \in TextBodies}

TextMaps ==
    {EmptyMap,
     Put(EmptyMap, A_png, A_1_png),
     Put(Put(EmptyMap, A_png, A_png), B_PNG, B_PNG)}

NoResults ==
    [meta |-> <<>>, content_only |-> <<>>, updated |-> <<>>, excerpt |-> <<>>]

IdleRun ==
    /\ blogsExists = FALSE
    /\ tree = <<>>
    /\ pageTemplate = TRUE
    /\ homeTemplate = TRUE
    /\ priorOut = FALSE
    /\ outExists = FALSE
    /\ outStale = FALSE
    /\ outDirs = {}
    /\ images = EmptyMap
    /\ pages = EmptyMap
    /\ index = <<>>
    /\ copied_images = EmptyMap
    /\ md_files = <<>>
    /\ all_blogs = <<>>
    /\ published_blogs = <<>>
    /\ ai = 1
    /\ di = 1

InitText ==
    /\ prog \in Progs
    /\ pc = "t_extract"
    /\ inp \in [md_content : Texts, copied_images : TextMaps]
    /\ outp = NoResults
    /\ IdleRun

\* title, date, status, author, tags = extract_metadata(md_content), then the
\* frontmatter is removed from the content
TextExtract ==
    /\ pc = "t_extract"
    /\ outp' = [outp EXCEPT !.meta = extract_metadata(inp.md_content),
                            !.content_only = content_only(inp.md_content)]
    /\ pc' = "t_rewrite"
    /\ UNCHANGED <<inputVars, outVars, localVars, inp>>

\* updated_md_content = update_image_references(content_only, copied_images)
TextRewrite ==
    /\ pc = "t_rewrite"
    /\ outp' = [outp EXCEPT !.updated =
                    IF prog = "blog_generator"
                    THEN update_image_references(outp.content_only, inp.copied_images)
                    ELSE update_image_references_m2h(outp.content_only, inp.copied_images)]
    /\ pc' = "t_excerpt"
    /\ UNCHANGED <<inputVars, outVars, localVars, inp>>

\* the excerpt generate_home_page takes of the same file
TextExcerpt ==
    /\ pc = "t_excerpt"
    /\ outp' = [outp EXCEPT !.excerpt = make_excerpt(content_only(inp.md_content))]
    /\ pc' = "t_done"
    /\ UNCHANGED <<inputVars, outVars, localVars, inp>>

NextText == TextExtract \/ TextRewrite \/ TextExcerpt

SpecText == InitText /\ [][NextText]_vars

-----------------------------------------------------------------------------
(* copy_assets: one step per file of the walk. *)

image_extensions ==
    {<<".", "j", "p", "g">>, <<".", "j", "p", "e", "g">>, <<".", "p", "n", "g">>,
     <<".", "g", "i", "f">>, <<".", "s", "v", "g">>, <<".", "w", "e", "b", "p">>,
     <<".", "b", "m", "p">>, <<".", "i", "c", "o">>}

is_image(file) == lower(splitext_ext(file)) \in image_extensions

\* the while loop: f"{name}_{counter}{ext}" until the name is free
RECURSIVE probe(_, _, _, _)
probe(imgs, file, dst, counter) ==
    IF dst \in DOMAIN imgs
    THEN probe(imgs, file,
               splitext_name(file) \o <<"_">> \o str(counter) \o splitext_ext(file),
               counter + 1)
    ELSE dst

\* variant of dst_name: no search for a free name
dst_name_overwriting(imgs, file) == file

\* variant of dst_name: the counter starts at 2
dst_name_from_two(imgs, file) == probe(imgs, file, file, 2)

\* the destination of one file: its own name, or the first free suffixed name
dst_name(imgs, file) == probe(imgs, file, file, 1)

\* variant of record_copy: an entry, once made, is kept
record_first_only(m, file, dst) == IF file \in DOMAIN m THEN m ELSE Put(m, file, dst)

\* copied_images[file] = os.path.basename(dst_path)
record_copy(m, file, dst) == Put(m, file, dst)

\* images_dir is created and the map starts empty
copy_assets_begin ==
    /\ pc = "copy"
    /\ outDirs' = outDirs \cup {"images"}
    /\ copied_images' = EmptyMap
    /\ ai' = 1
    /\ pc' = "assets"
    /\ UNCHANGED <<inputVars, outExists, outStale, images, pages, index,
                   md_files, all_blogs, published_blogs, di, inp, outp>>

\* one file of os.walk(blogs_dir)
copy_asset ==
    /\ pc = "assets"
    /\ ai <= Len(tree)
    /\ LET file == tree[ai].file
           dst == dst_name(images, file)
       IN  IF is_image(file)
           THEN /\ images' = Put(images, dst, ai)
                /\ copied_images' = record_copy(copied_images, file, dst)
           ELSE UNCHANGED <<images, copied_images>>
    /\ ai' = ai + 1
    /\ UNCHANGED <<inputVars, pc, outExists, outStale, outDirs, pages, index,
                   md_files, all_blogs, published_blogs, di, inp, outp>>

\* return copied_images
copy_assets_return ==
    /\ pc = "assets"
    /\ ai > Len(tree)
    /\ pc' = "find"
    /\ UNCHANGED <<inputVars, outVars, localVars, inp, outp>>

AssetFile(name) == [file |-> name, text |-> <<>>, readable |-> TRUE]

AssetNames == {A_png, A_1_png, B_PNG, N_txt}

SeqsUpTo(S, n) == UNION {[1..k -> S] : k \in 0..n}

InitAssets ==
    /\ prog \in Progs
    /\ pc = "copy"
    /\ blogsExists = TRUE
    /\ tree \in SeqsUpTo({AssetFile(n) : n \in AssetNames}, MaxAssets)
    /\ pageTemplate = TRUE
    /\ homeTemplate = TRUE
    /\ priorOut = FALSE
    /\ outExists = TRUE
    /\ outStale = FALSE
    /\ outDirs = IF prog = "blog_generator" THEN {"published", "draft"} ELSE {}
    /\ images = EmptyMap
    /\ pages = EmptyMap
    /\ index = <<>>
    /\ copied_images = EmptyMap
    /\ md_files = <<>>
    /\ all_blogs = <<>>
    /\ published_blogs = <<>>
    /\ ai = 1
    /\ di = 1
    /\ inp = <<>>
    /\ outp = <<>>

NextAssets == copy_assets_begin \/ copy_asset \/ copy_assets_return

SpecAssets == InitAssets /\ [][NextAssets]_vars

\* the recognized asset files the walk has passed
Copied == {i \in 1..(ai - 1) : i <= Len(tree) /\ is_image(tree[i].file)}

\* the name under which file i of the tree was stored
StoredAs(i) == {n \in DOMAIN images : images[n] = i}

\* C1: copy_assets never writes over a file of the images directory: the
\* directory holds exactly one file per recognized asset file passed so far,
\* and no two keys of the rename map have the same value.
C1_NoOverwrite ==
    /\ \A i \in Copied : Cardinality(StoredAs(i)) = 1
    /\ Cardinality(DOMAIN images) = Cardinality(Copied)
    /\ \A k1, k2 \in DOMAIN copied_images :
           k1 # k2 => copied_images[k1] # copied_images[k2]

\* two files both named a.png have been copied and are two files of the output
C1_Witness ==
    /\ pc = "find"
    /\ \E i, j \in Copied : i # j /\ tree[i].file = A_png /\ tree[j].file = A_png
    /\ Cardinality(DOMAIN images) >= 2
    /\ Cardinality(DOMAIN copied_images) >= 2

Occurrences(k) == {i \in Copied : tree[i].file = k}

\* C2 as stated: every key maps to the name given to the first file met with
\* that basename.
C2_FirstEncountered ==
    \A k \in DOMAIN copied_images :
        \E i \in Occurrences(k) :
            /\ \A j \in Occurrences(k) : i <= j
            /\ copied_images[k] \in StoredAs(i)

\* C2, amended: every key maps to the name given to the last file met so far
\* with that basename; each later file with the same basename replaces the
\* entry.
C2_LastEncountered ==
    /\ DOMAIN copied_images = {tree[i].file : i \in Copied}
    /\ \A k \in DOMAIN copied_images :
           \E i \in Occurrences(k) :
               /\ \A j \in Occurrences(k) : j <= i
               /\ copied_images[k] \in StoredAs(i)

\* a basename met twice: its entry names the second file's copy
C2_Witness ==
    \E k \in DOMAIN copied_images :
        /\ Cardinality(Occurrences(k)) >= 2
        /\ copied_images[k] # k

\* f"{name}_{k}{ext}"
Suffixed(file, k) == splitext_name(file) \o <<"_">> \o str(k) \o splitext_ext(file)

\* copy_assets is at a recognized asset file whose name is taken
Collides ==
    /\ pc = "assets"
    /\ ai <= Len(tree)
    /\ is_image(tree[ai].file)
    /\ tree[ai].file \in DOMAIN images

\* the suffixes k >= 1 for which name_k.ext is free; with n names taken one of
\* 1..n+1 is free, so the search ends
FreeSuffixes(file) ==
    {k \in 1..(Cardinality(DOMAIN images) + 1) : Suffixed(file, k) \notin DOMAIN images}

\* C14: a recognized asset file name.ext whose name is taken in the images
\* directory is stored as name_k.ext for the smallest k >= 1 with name_k.ext
\* not yet present, also when some name_j.ext came from a source file of that
\* name; such a k exists, every file stored before stays as it is, and the
\* map then has original basename -> name_k.ext.
C14_SmallestFreeSuffix ==
    [][Collides =>
          LET file == tree[ai].file
              final == Suffixed(file, Least(FreeSuffixes(file)))
          IN  /\ FreeSuffixes(file) # {}
              /\ DOMAIN images' = DOMAIN images \cup {final}
              /\ images'[final] = ai
              /\ \A n \in DOMAIN images : images'[n] = images[n]
              /\ file \in DOMAIN copied_images'
              /\ copied_images'[file] = final]_vars

\* a.png, a source file a_1.png and a second a.png: the second a.png is stored
\* as a_2.png and the map has a.png -> a_2.png
C14_Witness ==
    /\ \E i \in Copied : tree[i].file = A_1_png /\ A_1_png \in StoredAs(i)
    /\ \E i \in Copied : tree[i].file = A_png /\ Suffixed(A_png, 2) \in StoredAs(i)
    /\ A_png \in DOMAIN copied_images
    /\ copied_images[A_png] = Suffixed(A_png, 2)

-----------------------------------------------------------------------------
(* generate_blog_site. *)

Md == <<".", "m", "d">>
Html == <<".", "h", "t", "m", "l">>

find_md_files(t) == SelectSeq([i \in DOMAIN t |-> i], LAMBDA i : endswith(t[i].file, Md))

\* variant of output_subdir: the status is compared without regard to case
output_subdir_any_case(status) ==
    IF status \in {"published", "Published"} THEN "published" ELSE "draft"

\* 'published' if status == 'published' else 'draft'
output_subdir(status) == IF status = "published" THEN "published" ELSE "draft"

\* f'{output_subdir}/{os.path.basename(md_file).replace(".md", ".html")}'
output_path(status, file) ==
    <<output_subdir(status), "/">> \o replace(file, Md, Html)

\* the record of one document; md_file is the index of the file in the tree
blog_info(t, i) ==
    LET m == extract_metadata(t[i].text)
    IN  [title |-> m.title, path |-> output_path(m.status, t[i].file),
         date |-> m.date, status |-> m.status, author |-> m.author,
         tags |-> m.tags, md_file |-> i]

\* the page written for one document: what is handed to the Markdown renderer
\* and the title put into the template
page_bg(t, blog, copied) ==
    [md_file |-> blog.md_file, title |-> blog.title,
     md |-> update_image_references(content_only(t[blog.md_file].text), copied)]

page_m2h(t, blog, copied) ==
    [md_file |-> blog.md_file, title |-> blog.title,
     md |-> update_image_references_m2h(content_only(t[blog.md_file].text), copied)]

\* key=lambda x: x['date'] or datetime.min
sort_key(blog) == IF blog.date = <<>> THEN DatetimeMin ELSE blog.date[1]

\* x is put behind every element whose key is not smaller: equal keys keep
\* their order
RECURSIVE insert_desc(_, _)
insert_desc(sorted, x) ==
    IF sorted = <<>> THEN <<x>>
    ELSE IF sort_key(Head(sorted)) >= sort_key(x)
         THEN <<Head(sorted)>> \o insert_desc(Tail(sorted), x)
         ELSE <<x>> \o sorted

\* variants of insert_desc and sort_newest_first: equal keys change places
RECURSIVE insert_desc_unstable(_, _)
insert_desc_unstable(sorted, x) ==
    IF sorted = <<>> THEN <<x>>
    ELSE IF sort_key(Head(sorted)) > sort_key(x)
         THEN <<Head(sorted)>> \o insert_desc_unstable(Tail(sorted), x)
         ELSE <<x>> \o sorted

RECURSIVE sort_unstable(_)
sort_unstable(blogs) ==
    IF blogs = <<>> THEN <<>>
    ELSE insert_desc_unstable(sort_unstable(SubSeq(blogs, 1, Len(blogs) - 1)),
                              blogs[Len(blogs)])

\* list.sort(key=..., reverse=True): descending and stable
RECURSIVE sort_newest_first(_)
sort_newest_first(blogs) ==
    IF blogs = <<>> THEN <<>>
    ELSE insert_desc(sort_newest_first(SubSeq(blogs, 1, Len(blogs) - 1)),
                     blogs[Len(blogs)])

HomeLimit == 10

\* one article card of the home page
teaser(t, blog) ==
    [path |-> blog.path, title |-> blog.title, date |-> blog.date,
     md_file |-> blog.md_file,
     excerpt |-> IF t[blog.md_file].readable
                 THEN make_excerpt(content_only(t[blog.md_file].text))
                 ELSE NoPreview]

\* variant of articles: no limit of ten
articles_unlimited(t, blogs) == [k \in 1..Len(blogs) |-> teaser(t, blogs[k])]

\* for blog in published_blogs[:10]
articles(t, blogs) ==
    [k \in 1..(IF Len(blogs) < HomeLimit THEN Len(blogs) ELSE HomeLimit) |->
        teaser(t, blogs[k])]

\* variant of no_blogs_dir: the output root is removed before the test
no_blogs_dir_after_rmtree ==
    /\ pc = "start"
    /\ ~blogsExists
    /\ pc' = "noop"
    /\ outExists' = FALSE
    /\ outStale' = FALSE
    /\ UNCHANGED <<inputVars, outDirs, images, pages, index, localVars, inp, outp>>

\* "No 'blogs' directory found in repository": return
no_blogs_dir ==
    /\ pc = "start"
    /\ ~blogsExists
    /\ pc' = "noop"
    /\ UNCHANGED <<inputVars, outVars, localVars, inp, outp>>

\* the output root is removed and created again; blog_generator.py also
\* creates published/ and draft/ here
recreate_output ==
    /\ pc = "start"
    /\ blogsExists
    /\ outExists' = TRUE
    /\ outStale' = FALSE
    /\ outDirs' = IF prog = "blog_generator" THEN {"published", "draft"} ELSE {}
    /\ images' = EmptyMap
    /\ pages' = EmptyMap
    /\ index' = <<>>
    /\ pc' = "copy"
    /\ UNCHANGED <<inputVars, localVars, inp, outp>>

\* variant of find_md: the rename map is emptied again after copy_assets
find_md_resetting_map ==
    /\ pc = "find"
    /\ md_files' = find_md_files(tree)
    /\ published_blogs' = <<>>
    /\ all_blogs' = <<>>
    /\ di' = 1
    /\ copied_images' = EmptyMap
    /\ pc' = IF prog = "blog_generator" THEN "docs" ELSE "classify"
    /\ UNCHANGED <<inputVars, outVars, ai, inp, outp>>

\* md_files = find_md_files(blogs_dir); published_blogs = []; all_blogs = []
find_md ==
    /\ pc = "find"
    /\ md_files' = find_md_files(tree)
    /\ published_blogs' = <<>>
    /\ all_blogs' = <<>>
    /\ di' = 1
    /\ pc' = IF prog = "blog_generator" THEN "docs" ELSE "classify"
    /\ UNCHANGED <<inputVars, outVars, copied_images, ai, inp, outp>>

\* open(md_file) raises: the exception leaves generate_blog_site
doc_unreadable ==
    /\ pc \in {"docs", "classify"}
    /\ di <= Len(md_files)
    /\ ~tree[md_files[di]].readable
    /\ pc' = "raised"
    /\ UNCHANGED <<inputVars, outVars, localVars, inp, outp>>

\* blog_generator.py: one pass of "for md_file in md_files": the record is
\* built and the page is written
process_doc ==
    /\ pc = "docs"
    /\ di <= Len(md_files)
    /\ tree[md_files[di]].readable
    /\ LET blog == blog_info(tree, md_files[di])
       IN  /\ all_blogs' = Append(all_blogs, blog)
           /\ published_blogs' = IF blog.status = "published"
                                 THEN Append(published_blogs, blog)
                                 ELSE published_blogs
           /\ pages' = Put(pages, blog.path, page_bg(tree, blog, copied_images))
    /\ di' = di + 1
    /\ UNCHANGED <<inputVars, pc, outExists, outStale, outDirs, images, index,
                   copied_images, md_files, ai, inp, outp>>

\* blog_generator.py: published_blogs.sort(...)
sort_published ==
    /\ pc = "docs"
    /\ di > Len(md_files)
    /\ published_blogs' = sort_newest_first(published_blogs)
    /\ pc' = "home"
    /\ UNCHANGED <<inputVars, outVars, copied_images, md_files, all_blogs, ai, di,
                   inp, outp>>

\* blog_generator.py: generate_home_page; a missing template file is replaced
\* by the built-in one
generate_home_page ==
    /\ pc = "home"
    /\ prog = "blog_generator"
    /\ index' = <<[teasers |-> articles(tree, published_blogs),
                   template |-> IF homeTemplate THEN "file" ELSE "builtin"]>>
    /\ pc' = "done"
    /\ UNCHANGED <<inputVars, outExists, outStale, outDirs, images, pages,
                   localVars, inp, outp>>

\* md_to_html.py, first pass: collect all blog info
classify_doc ==
    /\ pc = "classify"
    /\ di <= Len(md_files)
    /\ tree[md_files[di]].readable
    /\ LET blog == blog_info(tree, md_files[di])
       IN  /\ all_blogs' = Append(all_blogs, blog)
           /\ published_blogs' = IF blog.status = "published"
                                 THEN Append(published_blogs, blog)
                                 ELSE published_blogs
    /\ di' = di + 1
    /\ UNCHANGED <<inputVars, pc, outVars, copied_images, md_files, ai, inp, outp>>

\* md_to_html.py: both lists are sorted by date, newest first
sort_blogs ==
    /\ pc = "classify"
    /\ di > Len(md_files)
    /\ published_blogs' = sort_newest_first(published_blogs)
    /\ all_blogs' = sort_newest_first(all_blogs)
    /\ di' = 1
    /\ pc' = "render"
    /\ UNCHANGED <<inputVars, outVars, copied_images, md_files, ai, inp, outp>>

\* md_to_html.py, second pass: one page of "for blog_info in all_blogs"
render_doc ==
    /\ pc = "render"
    /\ di <= Len(all_blogs)
    /\ pageTemplate
    /\ outDirs' = outDirs \cup {all_blogs[di].path[1]}
    /\ pages' = Put(pages, all_blogs[di].path,
                    page_m2h(tree, all_blogs[di], copied_images))
    /\ di' = di + 1
    /\ UNCHANGED <<inputVars, pc, outExists, outStale, images, index,
                   copied_images, md_files, all_blogs, published_blogs, ai, inp, outp>>

\* md_to_html.py: load_template('blog_post.template') finds no file: sys.exit(1),
\* after the directory of the page was created
page_template_missing ==
    /\ pc = "render"
    /\ di <= Len(all_blogs)
    /\ ~pageTemplate
    /\ outDirs' = outDirs \cup {all_blogs[di].path[1]}
    /\ pc' = "exited"
    /\ UNCHANGED <<inputVars, outExists, outStale, images, pages, index,
                   localVars, inp, outp>>

\* md_to_html.py: every page is written
render_done ==
    /\ pc = "render"
    /\ di > Len(all_blogs)
    /\ pc' = "home"
    /\ UNCHANGED <<inputVars, outVars, localVars, inp, outp>>

\* md_to_html.py: generate_home_page; without the template file it prints
\* "Template file not found" and returns
generate_home_page_m2h ==
    /\ pc = "home"
    /\ prog = "md_to_html"
    /\ index' = IF homeTemplate
                THEN <<[teasers |-> articles(tree, published_blogs),
                        template |-> "file"]>>
                ELSE index
    /\ pc' = "dirs"
    /\ UNCHANGED <<inputVars, outExists, outStale, outDirs, images, pages,
                   localVars, inp, outp>>

\* md_to_html.py: "Create published and draft directories", last of all
make_dirs ==
    /\ pc = "dirs"
    /\ outDirs' = outDirs \cup {"published", "draft"}
    /\ pc' = "done"
    /\ UNCHANGED <<inputVars, outExists, outStale, images, pages, index,
                   localVars, inp, outp>>

-----------------------------------------------------------------------------
(* The source trees of a run.  Every file lies in a directory of its own,  *)
(* so that two files of a tree may have the same name; the position in the *)
(* tree is the order of the walk.                                          *)

P_md == <<"p", ".", "m", "d">>
Q_md == <<"q", ".", "m", "d">>
R_md == <<"r", ".", "m", "d">>
U_md == <<"u", ".", "m", "d">>

RECURSIVE Lines(_)
Lines(ls) == IF ls = <<>> THEN <<>> ELSE <<Head(ls), "\n">> \o Lines(Tail(ls))

\* a document with a header
MkText(ls, body) == Dashes \o <<"\n">> \o Lines(ls) \o Dashes \o <<"\n">> \o body

MdFile(name, text, readable) == [file |-> name, text |-> text, readable |-> readable]

SiteFiles ==
    {AssetFile(A_png),
     MdFile(P_md, MkText(<<"title: Hello", "date: 2024-01-01", "status: published">>,
                         Embed(<<"x">>, <<"d", "/">> \o A_png)), TRUE),
     MdFile(Q_md, MkText(<<"status: published", "date: 2024-06-01">>, <<"a">>), TRUE),
     MdFile(P_md, MkText(<<"title: World", "status: published">>, <<"b">>), TRUE),
     MdFile(Q_md, MkText(<<"status: published", "date: 0001-01-01">>, <<"c">>), TRUE),
     MdFile(R_md, MkText(<<"status: Published", "date: 2024-06-01">>, <<"d">>), TRUE),
     MdFile(R_md, <<"a">> \o Dashes \o <<"b">> \o Dashes \o <<"c">>, TRUE),
     MdFile(U_md, MkText(<<"status: published">>, <<"e">>), FALSE)}

SmallTrees == SeqsUpTo(SiteFiles, MaxFiles)

\* Long trees: document i is published, its body has LongBase + i characters.
LongBase == 143

LongBody(i) ==
    [j \in 1..(LongBase + i) |->
        IF i % 5 = 0 /\ j = 2 THEN "#" ELSE IF j % 7 = i % 7 THEN "b" ELSE "a"]

LongDoc(i) ==
    MdFile(<<"d">> \o str(i) \o Md,
           MkText(<<"status: published">>
                      \o (CASE i % 3 = 1 -> <<"date: 2024-01-01">>
                            [] i % 3 = 2 -> <<"date: 2024-06-01">>
                            [] OTHER -> <<>>),
                  LongBody(i)),
           TRUE)

LongTrees == {[i \in 1..n |-> LongDoc(i)] : n \in (MaxPublished - 2)..MaxPublished}

\* Trees of two documents, drafts without header or published, whose names
\* hold ".md" twice, or ".html" before ".md"
A_md_md == <<"a">> \o Md \o Md
A_html_md == <<"a">> \o Html \o Md

NameFiles ==
    {MdFile(A_md_md, <<"x">>, TRUE),
     MdFile(A_html_md, <<"y">>, TRUE),
     MdFile(A_md_md, MkText(<<"title: Hello", "status: published">>, <<"x">>), TRUE),
     MdFile(A_html_md, MkText(<<"title: World", "status: published">>, <<"y">>), TRUE)}

NameTrees == [1..2 -> NameFiles]

Init ==
    /\ prog \in Progs
    /\ pc = "start"
    /\ blogsExists \in BOOLEAN
    /\ tree \in (IF blogsExists THEN SmallTrees \cup LongTrees \cup NameTrees ELSE {<<>>})
    /\ pageTemplate \in (IF prog = "md_to_html" THEN BOOLEAN ELSE {TRUE})
    /\ homeTemplate \in BOOLEAN
    /\ priorOut \in BOOLEAN
    /\ outExists = priorOut
    /\ outStale = priorOut
    /\ outDirs = {}
    /\ images = EmptyMap
    /\ pages = EmptyMap
    /\ index = <<>>
    /\ copied_images = EmptyMap
    /\ md_files = <<>>
    /\ all_blogs = <<>>
    /\ published_blogs = <<>>
    /\ ai = 1
    /\ di = 1
    /\ inp = <<>>
    /\ outp = <<>>

Next ==
    \/ no_blogs_dir
    \/ recreate_output
    \/ copy_assets_begin
    \/ copy_asset
    \/ copy_assets_return
    \/ find_md
    \/ doc_unreadable
    \/ process_doc
    \/ sort_published
    \/ generate_home_page
    \/ classify_doc
    \/ sort_blogs
    \/ render_doc
    \/ page_template_missing
    \/ render_done
    \/ generate_home_page_m2h
    \/ make_dirs

Spec == Init /\ [][Next]_vars

-----------------------------------------------------------------------------
(* Properties of a run of generate_blog_site. *)

\* published_blogs is sorted and is, or was, handed to generate_home_page
Handed == pc \in {"home", "dirs", "done"}

PublishedDocs ==
    {i \in Range(md_files) : extract_metadata(tree[i].text).status = "published"}

Undated(blog) == blog.date = <<>>

ExactlyPublished ==
    /\ {published_blogs[k].md_file : k \in DOMAIN published_blogs} = PublishedDocs
    /\ Len(published_blogs) = Cardinality(PublishedDocs)
    /\ \A k \in DOMAIN published_blogs :
           published_blogs[k].date = extract_metadata(tree[published_blogs[k].md_file].text).date

\* C3 as stated: the list handed to the home page holds exactly the published
\* documents, newest first, every undated document behind every dated one,
\* and documents of equal date (or both undated) in the order of discovery.
C3_UndatedAfterDated ==
    Handed =>
        /\ ExactlyPublished
        /\ \A i, j \in DOMAIN published_blogs :
               i < j =>
                   LET a == published_blogs[i]
                       b == published_blogs[j]
                   IN  /\ ~(Undated(a) /\ ~Undated(b))
                       /\ (~Undated(a) /\ ~Undated(b)) => a.date[1] >= b.date[1]
                       /\ a.date = b.date => a.md_file < b.md_file

\* the date a document is ordered by: its own, or 0001-01-01 when it has none
OrderDate(blog) == IF Undated(blog) THEN 10101 ELSE blog.date[1]

\* C3, amended: the list handed to the home page holds exactly the published
\* documents, newest first, an undated document counting as dated 0001-01-01:
\* it comes behind every document of a later date, and documents that count
\* as equally dated (an undated one and one dated 0001-01-01 included) keep
\* the order of discovery.
C3_NewestFirstStable ==
    Handed =>
        /\ ExactlyPublished
        /\ \A i, j \in DOMAIN published_blogs :
               i < j =>
                   LET a == published_blogs[i]
                       b == published_blogs[j]
                   IN  /\ OrderDate(a) >= OrderDate(b)
                       /\ OrderDate(a) = OrderDate(b) => a.md_file < b.md_file

\* the spec's example: 2024-01-01, 2024-06-01 and no date, discovered in that
\* order, are handed over as 2024-06-01, 2024-01-01, no date
C3_Witness ==
    /\ pc = "done"
    /\ Len(published_blogs) = 3
    /\ published_blogs[1].date = <<20240601>> /\ published_blogs[1].md_file = 2
    /\ published_blogs[2].date = <<20240101>> /\ published_blogs[2].md_file = 1
    /\ published_blogs[3].date = <<>> /\ published_blogs[3].md_file = 3

FirstSegment(path) == SubSeq(path, 1, FirstIdx(path, "/", 1) - 1)

\* C5: the first segment of a document's output path is "published" exactly
\* when its extracted status is the literal "published", and "draft" for
\* every other status.
C5_SegmentIffPublished ==
    \A k \in DOMAIN all_blogs :
        LET status == extract_metadata(tree[all_blogs[k].md_file].text).status
            segment == FirstSegment(all_blogs[k].path)
        IN  /\ segment \in {<<"published">>, <<"draft">>}
            /\ segment = <<"published">> <=> status = "published"

\* a document with status Published and one with no header lie under draft,
\* one with status published under published
C5_Witness ==
    /\ \E k \in DOMAIN all_blogs :
           all_blogs[k].status = "Published" /\ FirstSegment(all_blogs[k].path) = <<"draft">>
    /\ \E k \in DOMAIN all_blogs :
           /\ ~startswith(tree[all_blogs[k].md_file].text, Dashes)
           /\ FirstSegment(all_blogs[k].path) = <<"draft">>
    /\ \E k \in DOMAIN all_blogs :
           all_blogs[k].status = "published" /\ FirstSegment(all_blogs[k].path) = <<"published">>

Min(a, b) == IF a < b THEN a ELSE b

\* C7: a written home page holds min(10, n) teasers, one per entry of the
\* first ten entries of the published ordering, in that order, each linking
\* to the entry's output path; no later entry appears.
C7_FirstTenInOrder ==
    index # <<>> =>
        LET teasers == index[1].teasers
        IN  /\ Len(teasers) = Min(10, Len(published_blogs))
            /\ \A k \in DOMAIN teasers :
                   /\ teasers[k].path = published_blogs[k].path
                   /\ teasers[k].md_file = published_blogs[k].md_file
            /\ \A k \in DOMAIN published_blogs :
                   k > 10 => \A l \in DOMAIN teasers :
                                 teasers[l].md_file # published_blogs[k].md_file

\* eleven published documents, ten teasers
C7_Witness ==
    /\ index # <<>>
    /\ Len(published_blogs) = 11
    /\ Len(index[1].teasers) = 10

\* the body of the document a teaser was made from, its header removed
TeaserBody(t) == content_only(tree[t.md_file].text)

Plain(body) == \A i \in DOMAIN body : body[i] \notin {"#", "*", "BACKTICK"}

\* C8: for a body of n characters without #, * and the grave accent, the
\* excerpt is the first 150 characters and "..." when n > 150, and the whole
\* body, nothing appended, when n <= 150.
C8_ExcerptTruncation ==
    index # <<>> =>
        \A k \in DOMAIN index[1].teasers :
            LET t == index[1].teasers[k]
                body == TeaserBody(t)
            IN  (tree[t.md_file].readable /\ Plain(body)) =>
                    /\ Len(body) > 150 =>
                           t.excerpt = SubSeq(body, 1, 150) \o <<".", ".", ".">>
                    /\ Len(body) <= 150 => t.excerpt = body
                    /\ t.excerpt = Take(body, 150) \o <<".", ".", ".">> <=> Len(body) > 150

\* a plain body of exactly 150 characters, whole, and one of 151, cut
C8_Witness ==
    /\ index # <<>>
    /\ \E k \in DOMAIN index[1].teasers :
           LET t == index[1].teasers[k]
           IN  Plain(TeaserBody(t)) /\ Len(TeaserBody(t)) = 150 /\ Len(t.excerpt) = 150
    /\ \E k \in DOMAIN index[1].teasers :
           LET t == index[1].teasers[k]
           IN  Plain(TeaserBody(t)) /\ Len(TeaserBody(t)) = 151 /\ Len(t.excerpt) = 153

\* C9: without a blogs directory the run returns and nothing under the
\* output root is created, deleted or changed, and no step of the pipeline
\* runs.
C9_MissingBlogsNoOp ==
    ~blogsExists =>
        /\ pc \in {"start", "noop"}
        /\ outExists = priorOut
        /\ outStale = priorOut
        /\ outDirs = {}
        /\ DOMAIN images = {}
        /\ DOMAIN pages = {}
        /\ index = <<>>
        /\ DOMAIN copied_images = {}
        /\ all_blogs = <<>>

\* the run has returned and the earlier run's output is still there
C9_Witness == pc = "noop" /\ priorOut /\ outExists /\ outStale

\* C10 as stated: a run that aborts on an unreadable document leaves no
\* partial output: no copied asset, no rendered page.
C10_AllOrNothing ==
    pc = "raised" => (DOMAIN images = {} /\ DOMAIN pages = {} /\ index = <<>>)

-----------------------------------------------------------------------------
(* Properties of the functions of one document. *)

NoHeader(text) == ~startswith(text, Dashes)

MalformedHeader(text) ==
    /\ startswith(text, Dashes)
    /\ Len(split(text, Dashes, 2)) >= 3
    /\ ~IsMapping(strip(split(text, Dashes, 2)[2]))

\* C4 as stated: a text that does not begin with --- or whose header is
\* malformed gets the default metadata, and the body rendered and excerpted
\* is the text itself, nothing cut from it.
C4_DefaultedBodyUnmodified ==
    (pc \in {"t_rewrite", "t_excerpt", "t_done"}
         /\ (NoHeader(inp.md_content) \/ MalformedHeader(inp.md_content))) =>
        /\ outp.meta = Defaults
        /\ outp.content_only = inp.md_content
        /\ pc = "t_done" => outp.excerpt = make_excerpt(inp.md_content)

\* the positions at which the image pattern matches, left to right
RECURSIVE EmbedStarts(_, _)
EmbedStarts(s, i) ==
    IF NextMatch(s, i) = 0 THEN <<>>
    ELSE <<NextMatch(s, i)>> \o EmbedStarts(s, MatchEnd(s, NextMatch(s, i)) + 1)

\* C6 as stated: every image embed keeps its alt text and gets as path one
\* fixed prefix followed by the mapped name, or by the unchanged basename
\* when the basename is no key of the map; the prefix is the same in both
\* cases.
C6_SamePrefix ==
    pc \in {"t_excerpt", "t_done"} =>
        LET src == outp.content_only
            dst == outp.updated
            es == EmbedStarts(src, 1)
            ed == EmbedStarts(dst, 1)
        IN  /\ Len(es) = Len(ed)
            /\ \E prefix \in {ImagesPrefix, UpImagesPrefix} :
                   \A k \in DOMAIN es :
                       LET name == basename(image_path(src, es[k]))
                       IN  /\ alt_text(dst, ed[k]) = alt_text(src, es[k])
                           /\ image_path(dst, ed[k]) =
                                  prefix \o (IF name \in DOMAIN inp.copied_images
                                             THEN inp.copied_images[name]
                                             ELSE name)

-----------------------------------------------------------------------------
(* Templates, phases and the rename map in a run of generate_blog_site. *)

TemplateMissing == ~pageTemplate \/ ~homeTemplate

\* C11 as stated: when the page template or the index template is missing,
\* the run aborts before any output is written: the output root is not
\* recreated, no asset is copied, no page is rendered, no index page is
\* produced (none from a built-in template either), and the run does not end
\* as a success.
C11_MissingTemplateFatal ==
    (blogsExists /\ TemplateMissing) =>
        /\ outExists = priorOut
        /\ outStale = priorOut
        /\ outDirs = {}
        /\ DOMAIN images = {}
        /\ DOMAIN pages = {}
        /\ index = <<>>
        /\ pc # "done"

\* copy_assets has returned
AssetsCopied == pc \notin {"start", "noop", "copy", "assets"}

\* every discovered document has been classified into a record
DocumentsClassified ==
    /\ pc \notin {"start", "noop", "copy", "assets", "find"}
    /\ Len(all_blogs) = Len(md_files)

\* the page of every discovered document has been written
DocumentsRendered ==
    /\ DocumentsClassified
    /\ \A k \in DOMAIN all_blogs : all_blogs[k].path \in DOMAIN pages

IndexComposed == DocumentsRendered /\ index # <<>>

\* the phase of the run: Init 0, AssetsCopied 1, DocumentsClassified 2,
\* DocumentsRendered 3, IndexComposed 4, Done 5
Phase ==
    CASE pc = "done" -> 5
      [] pc # "done" /\ IndexComposed -> 4
      [] pc # "done" /\ ~IndexComposed /\ DocumentsRendered -> 3
      [] pc # "done" /\ ~DocumentsRendered /\ DocumentsClassified -> 2
      [] pc # "done" /\ ~DocumentsClassified /\ AssetsCopied -> 1
      [] OTHER -> 0

\* C12 as stated: the phases of a run follow one another without
\* backtracking; no page is written until every discovered document has been
\* classified into a record, and the index is composed only after the page of
\* every document has been written.
C12_PhasesInOrder ==
    /\ [][Phase' >= Phase]_vars
    /\ [](DOMAIN pages # {} => DocumentsClassified)
    /\ [](index # <<>> => DocumentsRendered)

\* the rename map copy_assets returns for the whole tree: the walk is over and
\* the keys are the basenames of all recognized asset files
MapComplete ==
    /\ ai > Len(tree)
    /\ DOMAIN copied_images = {tree[i].file : i \in {j \in DOMAIN tree : is_image(tree[j].file)}}

\* the text handed to the renderer for document i, rewritten against map m
Rewritten(i, m) ==
    IF prog = "blog_generator"
    THEN update_image_references(content_only(tree[i].text), m)
    ELSE update_image_references_m2h(content_only(tree[i].text), m)

\* C13: the rename map is complete when copy_assets has returned, no page is
\* written before that, from then on no step adds, removes or changes an
\* entry, and every page written so far was rewritten against this one map.
C13_MapFrozen ==
    /\ [](AssetsCopied => MapComplete)
    /\ [](DOMAIN pages # {} => AssetsCopied)
    /\ [](\A path \in DOMAIN pages :
              pages[path].md = Rewritten(pages[path].md_file, copied_images))
    /\ [][AssetsCopied => copied_images' = copied_images]_vars

\* a finished run with an asset in the map and two pages, one of them with an
\* embed that was rewritten
C13_Witness ==
    /\ pc = "done"
    /\ DOMAIN copied_images # {}
    /\ Cardinality(DOMAIN pages) >= 2
    /\ \E path \in DOMAIN pages :
           /\ EmbedStarts(pages[path].md, 1) # <<>>
           /\ pages[path].md # content_only(tree[pages[path].md_file].text)

\* the publication state of document i of the tree
PublicationState(i) == output_subdir(extract_metadata(tree[i].text).status)

\* no two discovered documents of the same publication state share a basename
UniqueBasenames ==
    \A i, j \in Range(md_files) :
        (i # j /\ PublicationState(i) = PublicationState(j)) => tree[i].file # tree[j].file

\* C15 as stated: if no two discovered documents of the same publication
\* state share a basename, no two records have the same output path, and a
\* finished run has written one page per discovered document.
C15_DistinctOutputPaths ==
    (DocumentsClassified /\ UniqueBasenames) =>
        /\ \A k, l \in DOMAIN all_blogs : k # l => all_blogs[k].path # all_blogs[l].path
        /\ pc = "done" => Cardinality(DOMAIN pages) = Len(md_files)

\* the run has reached its end and has written a home page
Finished == pc = "done" /\ index # <<>>

\* title, date and excerpt of teaser t are those of document t.md_file
TeaserFrom(t) ==
    /\ t.title = extract_metadata(tree[t.md_file].text).title
    /\ t.date = extract_metadata(tree[t.md_file].text).date
    /\ t.excerpt = make_excerpt(content_only(tree[t.md_file].text))

\* C16 as stated: after a run that reaches the end, every teaser links to a
\* path under published/ at which a page was written in this run, and that
\* page was rendered from the document the teaser's title, date and excerpt
\* were taken from.
C16_TeaserLinksOwnPage ==
    Finished =>
        \A k \in DOMAIN index[1].teasers :
            LET t == index[1].teasers[k]
            IN  /\ FirstSegment(t.path) = <<"published">>
                /\ t.path \in DOMAIN pages
                /\ TeaserFrom(t)
                /\ pages[t.path].md_file = t.md_file
                /\ pages[t.path].md = Rewritten(t.md_file, copied_images)

====
